---- MODULE Spec2Model ----
(***************************************************************************)
(* A model of the IPO GMP bot: the standalone script gmp.js (main) and the *)
(* request handler (handler), with the text helpers both of them share.    *)
(*                                                                         *)
(* JavaScript values are tagged records.  A JavaScript string is a tuple   *)
(* of one-character strings; the fixed text fragments of a message are     *)
(* kept as single multi-character elements of such a tuple.  A thrown      *)
(* exception and the JavaScript null returned by normalizeDate are         *)
(* one-element tuples that no text can equal.                              *)
(***************************************************************************)
EXTENDS Integers, Sequences, FiniteSets, TLC

VARIABLES
    mode,           \* "main" (gmp.js) or "handler" (the request handler)
    env,            \* process.env: API_URL, BOT_TOKEN, CHAT_ID
    now,            \* the clock: the Asia/Kolkata date and the local year
    pc,             \* where the entry point waits: "start", "awaitFetch", "awaitSend",
                    \* "awaitErrSend", "done"
    inflight,       \* the network call awaited: "none" | "fetch" | "send" | "errsend"
    timeoutMs,      \* the timeout option of the call awaited, 0 when it has none
    requests,       \* the network requests issued, in order
    data,           \* the payload returned by fetchGmp
    message,        \* the text returned by formatMessage
    err,            \* the exception caught by the entry point
    sendResults,    \* the provider's replies and what sendTelegram made of each
    exitCode,       \* the exit code of the process (main), -1 while it runs
    response,       \* the HTTP response of the handler
    fn,             \* the helper under test in the helper specifications
    arg,            \* its argument
    ret             \* its result

vars == <<mode, env, now, pc, inflight, timeoutMs, requests,
          data, message, err, sendResults, exitCode, response, fn, arg, ret>>

pipelineVars == <<mode, env, now, pc, inflight, timeoutMs, requests,
                  data, message, err, sendResults, exitCode, response>>

helperVars == <<fn, arg, ret>>

-----------------------------------------------------------------------------
(* JavaScript values *)

Null == [t |-> "null"]

Undefined == [t |-> "undefined"]

Bool(b) == [t |-> "bool", b |-> b]

Num(n) == [t |-> "num", n |-> n]

Str(s) == [t |-> "str", s |-> s]

Arr(items) == [t |-> "arr", items |-> items]

Obj(keys, vals) == [t |-> "obj", keys |-> keys, vals |-> vals]

\* ToBoolean
Truthy(v) ==
    CASE v.t = "null" -> FALSE
      [] v.t = "undefined" -> FALSE
      [] v.t = "bool" -> v.b
      [] v.t = "num" -> v.n # 0
      [] v.t = "str" -> v.s # <<>>
      [] OTHER -> TRUE

\* a || b
Or(a, b) == IF Truthy(a) THEN a ELSE b

IndexOf(keys, k) ==
    IF \E i \in 1..Len(keys) : keys[i] = k
    THEN CHOOSE i \in 1..Len(keys) : keys[i] = k
    ELSE 0

\* v[k] for a value that is not null or undefined and a key that is not an
\* array index or a built-in property
Get(v, k) ==
    IF v.t = "obj" /\ IndexOf(v.keys, k) > 0
    THEN v.vals[IndexOf(v.keys, k)]
    ELSE Undefined

\* what a thrown exception looks like where a text is expected
RangeError == <<"RangeError: Invalid code point">>

TypeError == <<"TypeError: Cannot read properties of null">>

Thrown(x) == x = RangeError \/ x = TypeError

\* the JavaScript null returned by normalizeDate
NullDate == <<"null">>

-----------------------------------------------------------------------------
(* Text *)

Digits == <<"0", "1", "2", "3", "4", "5", "6", "7", "8", "9">>

IsDigit(c) == \E i \in 1..10 : Digits[i] = c

DigitVal(c) == (CHOOSE i \in 1..10 : Digits[i] = c) - 1

\* \s
IsSpace(c) == c \in {" ", "\n", "\t"}

RECURSIVE Number(_)
\* Number(code) for a string of decimal digits
Number(ds) ==
    IF ds = <<>> THEN 0
    ELSE 10 * Number(SubSeq(ds, 1, Len(ds) - 1)) + DigitVal(ds[Len(ds)])

StartsWith(text, pat) ==
    /\ Len(text) >= Len(pat)
    /\ SubSeq(text, 1, Len(pat)) = pat

Drop(text, n) == SubSeq(text, n + 1, Len(text))

RECURSIVE ReplaceAll(_, _, _)
\* text.split(pat).join(rep)
ReplaceAll(text, pat, rep) ==
    IF text = <<>> THEN <<>>
    ELSE IF StartsWith(text, pat)
         THEN rep \o ReplaceAll(Drop(text, Len(pat)), pat, rep)
         ELSE <<Head(text)>> \o ReplaceAll(Tail(text), pat, rep)

RECURSIVE CollapseSpace(_)
\* text.replace(/\s+/g, " ")
CollapseSpace(text) ==
    IF text = <<>> THEN <<>>
    ELSE IF IsSpace(Head(text))
         THEN LET k == CHOOSE n \in 1..Len(text) :
                           /\ \A i \in 1..n : IsSpace(text[i])
                           /\ (n = Len(text) \/ ~IsSpace(text[n + 1]))
              IN  <<" ">> \o CollapseSpace(Drop(text, k))
         ELSE <<Head(text)>> \o CollapseSpace(Tail(text))

\* text.trim()
Trim(text) ==
    IF \A i \in 1..Len(text) : IsSpace(text[i]) THEN <<>>
    ELSE LET a == CHOOSE i \in 1..Len(text) :
                      ~IsSpace(text[i]) /\ \A j \in 1..(i - 1) : IsSpace(text[j])
             b == CHOOSE i \in 1..Len(text) :
                      ~IsSpace(text[i]) /\ \A j \in (i + 1)..Len(text) : IsSpace(text[j])
         IN  SubSeq(text, a, b)

RECURSIVE ReplaceTags(_)
\* text.replace(/<[^>]*>/g, " ")
ReplaceTags(text) ==
    IF text = <<>> THEN <<>>
    ELSE IF Head(text) = "<" /\ \E j \in 2..Len(text) : text[j] = ">"
         THEN LET j == CHOOSE n \in 2..Len(text) :
                           text[n] = ">" /\ \A i \in 2..(n - 1) : text[i] # ">"
              IN  <<" ">> \o ReplaceTags(Drop(text, j))
         ELSE <<Head(text)>> \o ReplaceTags(Tail(text))

\* the largest code point String.fromCodePoint accepts
MaxCodePoint == 1114111

\* String.fromCodePoint(n) for n <= MaxCodePoint; the characters the model
\* does not tell apart are one letter
FromCodePoint(n) ==
    CASE n = 9 -> "\t"
      [] n = 10 -> "\n"
      [] n = 32 -> " "
      [] n = 34 -> "\""
      [] n = 35 -> "#"
      [] n = 38 -> "&"
      [] n = 39 -> "'"
      [] n = 59 -> ";"
      [] n = 60 -> "<"
      [] n = 62 -> ">"
      [] n \in 48..57 -> Digits[n - 47]
      [] OTHER -> "x"

\* the index of the ";" that ends a match of /&#(\d+);/ at the start of text,
\* 0 when there is no match there
RefEnd(text) ==
    IF /\ Len(text) >= 4
       /\ text[1] = "&"
       /\ text[2] = "#"
       /\ IsDigit(text[3])
    THEN LET k == CHOOSE n \in 3..Len(text) :
                      /\ \A i \in 3..n : IsDigit(text[i])
                      /\ (n = Len(text) \/ ~IsDigit(text[n + 1]))
         IN  IF k < Len(text) /\ text[k + 1] = ";" THEN k + 1 ELSE 0
    ELSE 0

RECURSIVE DecodeNumeric(_)
\* text.replace(/&#(\d+);/g, (_, code) => String.fromCodePoint(Number(code)))
DecodeNumeric(text) ==
    IF text = <<>> THEN <<>>
    ELSE IF RefEnd(text) > 0
         THEN LET e == RefEnd(text)
                  code == Number(SubSeq(text, 3, e - 1))
                  rest == DecodeNumeric(Drop(text, e))
              IN  IF code > MaxCodePoint \/ Thrown(rest)
                  THEN RangeError
                  ELSE <<FromCodePoint(code)>> \o rest
         ELSE LET rest == DecodeNumeric(Tail(text))
              IN  IF Thrown(rest) THEN RangeError ELSE <<Head(text)>> \o rest

\* namedMap, in the order of Object.entries
namedMap ==
    << <<(<<"&", "n", "b", "s", "p", ";">>), <<" ">> >>,
       <<(<<"&", "a", "m", "p", ";">>), <<"&">> >>,
       <<(<<"&", "l", "t", ";">>), <<"<">> >>,
       <<(<<"&", "g", "t", ";">>), <<">">> >>,
       <<(<<"&", "q", "u", "o", "t", ";">>), <<"\"">> >>,
       <<(<<"&", "#", "3", "9", ";">>), <<"'">> >> >>

RECURSIVE DecodeNamed(_, _)
\* Object.entries(namedMap).forEach(...), from entry i on
DecodeNamed(text, i) ==
    IF i > Len(namedMap) THEN text
    ELSE DecodeNamed(ReplaceAll(text, namedMap[i][1], namedMap[i][2]), i + 1)

\* the forEach over namedMap, unless the callback of replace threw
DecodeNamedUnlessThrown(decoded) ==
    IF Thrown(decoded) THEN decoded ELSE DecodeNamed(decoded, 1)

decodeHtmlEntities(v) ==
    IF v.t # "str" THEN <<>>
    ELSE DecodeNamedUnlessThrown(DecodeNumeric(v.s))

\* decoded.replace(/\s+/g, " ").trim(), unless decodeHtmlEntities threw
CollapseAndTrim(decoded) ==
    IF Thrown(decoded) THEN decoded ELSE Trim(CollapseSpace(decoded))

stripHtml(v) ==
    IF v.t # "str" THEN <<>>
    ELSE CollapseAndTrim(decodeHtmlEntities(Str(ReplaceTags(v.s))))

-----------------------------------------------------------------------------
(* Dates *)

Lower ==
    <<"a", "b", "c", "d", "e", "f", "g", "h", "i", "j", "k", "l", "m",
      "n", "o", "p", "q", "r", "s", "t", "u", "v", "w", "x", "y", "z">>

Upper ==
    <<"A", "B", "C", "D", "E", "F", "G", "H", "I", "J", "K", "L", "M",
      "N", "O", "P", "Q", "R", "S", "T", "U", "V", "W", "X", "Y", "Z">>

\* [A-Za-z]
IsLetter(c) == \E i \in 1..26 : Lower[i] = c \/ Upper[i] = c

ToLowerChar(c) ==
    IF \E i \in 1..26 : Upper[i] = c
    THEN Lower[CHOOSE i \in 1..26 : Upper[i] = c]
    ELSE c

\* text.toLowerCase()
ToLowerCase(text) == [i \in 1..Len(text) |-> ToLowerChar(text[i])]

\* String(n).padStart(width, "0") for 0 <= n < 10^width
RECURSIVE Pad(_, _)
Pad(n, width) ==
    IF width = 0 THEN <<>>
    ELSE Pad(n \div 10, width - 1) \o <<Digits[(n % 10) + 1]>>

\* text.padStart(2, "0")
PadStart2(text) == IF Len(text) < 2 THEN <<"0">> \o text ELSE text

MONTH_SHORT(key) ==
    CASE key = <<"j", "a", "n">> -> <<"0", "1">>
      [] key = <<"f", "e", "b">> -> <<"0", "2">>
      [] key = <<"m", "a", "r">> -> <<"0", "3">>
      [] key = <<"a", "p", "r">> -> <<"0", "4">>
      [] key = <<"m", "a", "y">> -> <<"0", "5">>
      [] key = <<"j", "u", "n">> -> <<"0", "6">>
      [] key = <<"j", "u", "l">> -> <<"0", "7">>
      [] key = <<"a", "u", "g">> -> <<"0", "8">>
      [] key = <<"s", "e", "p">> -> <<"0", "9">>
      [] key = <<"o", "c", "t">> -> <<"1", "0">>
      [] key = <<"n", "o", "v">> -> <<"1", "1">>
      [] key = <<"d", "e", "c">> -> <<"1", "2">>
      [] OTHER -> <<>>

\* /^\d{4}-\d{2}-\d{2}$/.test(text)
IsoShape(text) ==
    /\ Len(text) = 10
    /\ \A i \in {1, 2, 3, 4, 6, 7, 9, 10} : IsDigit(text[i])
    /\ text[5] = "-"
    /\ text[8] = "-"

\* text.match(/^(\d{1,2})-([A-Za-z]{3})$/): the number of day digits, 0 when
\* there is no match
ShortMatch(text) ==
    IF /\ Len(text) = 5
       /\ IsDigit(text[1])
       /\ text[2] = "-"
       /\ \A i \in 3..5 : IsLetter(text[i])
    THEN 1
    ELSE IF /\ Len(text) = 6
            /\ IsDigit(text[1])
            /\ IsDigit(text[2])
            /\ text[3] = "-"
            /\ \A i \in 4..6 : IsLetter(text[i])
         THEN 2
         ELSE 0

\* new Date(text) where text is neither of the two shapes above: parsing is
\* left to the engine, so the value is an input: not a number, or an instant
InvalidDate == [nan |-> TRUE, y |-> 0, m |-> 0, d |-> 0]

Instant(y, m, d) == [nan |-> FALSE, y |-> y, m |-> m, d |-> d]

\* parsed.toISOString().slice(0, 10): years outside 0..9999 are written with
\* a sign and six digits
ToISOStringSlice(parsed) ==
    IF parsed.y \in 0..9999
    THEN Pad(parsed.y, 4) \o <<"-">> \o Pad(parsed.m, 2) \o <<"-">> \o Pad(parsed.d, 2)
    ELSE <<(IF parsed.y < 0 THEN "-" ELSE "+")>>
         \o Pad((IF parsed.y < 0 THEN 0 - parsed.y ELSE parsed.y), 6)
         \o <<"-">> \o Pad(parsed.m, 2)

\* normalizeDate(value) when new Date().getFullYear() is year and
\* new Date(trimmed) is parsed
normalizeDate(value, year, parsed) ==
    IF ~Truthy(value) \/ value.t # "str" THEN NullDate
    ELSE LET trimmed == Trim(value.s)
         IN  IF trimmed = <<>> THEN NullDate
             ELSE IF IsoShape(trimmed) THEN trimmed
             ELSE LET n == ShortMatch(trimmed)
                      day == PadStart2(SubSeq(trimmed, 1, n))
                      month == MONTH_SHORT(ToLowerCase(SubSeq(trimmed, n + 2, n + 4)))
                  IN  IF n > 0 /\ month # <<>>
                      THEN Pad(year, 4) \o <<"-">> \o month \o <<"-">> \o day
                      ELSE IF parsed.nan THEN NullDate
                           ELSE ToISOStringSlice(parsed)

\* getTodayIso(): the Asia/Kolkata date in the en-CA format
getTodayIso(clock) ==
    Pad(clock.y, 4) \o <<"-">> \o Pad(clock.m, 2) \o <<"-">> \o Pad(clock.d, 2)

\* normalizeDate(stripped), unless stripHtml threw
NormalizeStripped(stripped, year, parsed) ==
    IF Thrown(stripped) THEN stripped
    ELSE normalizeDate(Str(stripped), year, parsed)

getCloseDateIso(row, year, parsed) ==
    IF row.t \in {"null", "undefined"} THEN TypeError
    ELSE NormalizeStripped(stripHtml(Or(Get(row, "~Srt_Close"), Get(row, "Close"))),
                           year, parsed)

\* closeIso === todayIso, as <<"true">> or <<"false">>, unless
\* getCloseDateIso threw
SameDate(closeIso, todayIso) ==
    IF Thrown(closeIso) THEN closeIso
    ELSE IF closeIso = todayIso THEN <<"true">> ELSE <<"false">>

\* the result is <<"true">>, <<"false">> or an exception
isClosingToday(row, todayIso, year, parsed) ==
    SameDate(getCloseDateIso(row, year, parsed), todayIso)

-----------------------------------------------------------------------------
(* Messages *)

RECURSIVE NumToText(_)
\* String(n) for an integer n >= 0
NumToText(n) ==
    IF n < 10 THEN <<Digits[n + 1]>>
    ELSE NumToText(n \div 10) \o <<Digits[(n % 10) + 1]>>

RECURSIVE Quote(_)
\* the characters of a string between the quotes JSON.stringify writes
Quote(text) ==
    IF text = <<>> THEN <<>>
    ELSE (CASE Head(text) = "\"" -> <<"\\", "\"">>
            [] Head(text) = "\\" -> <<"\\", "\\">>
            [] Head(text) = "\n" -> <<"\\", "n">>
            [] Head(text) = "\t" -> <<"\\", "t">>
            [] OTHER -> <<Head(text)>>)
         \o Quote(Tail(text))

Indent(n) == [i \in 1..n |-> " "]

RECURSIVE JSONstringify(_, _, _), Elements(_, _, _, _)
\* JSON.stringify(v, null, space) at nesting depth depth; space is 2 or 0
JSONstringify(v, space, depth) ==
    CASE v.t = "null" -> <<"n", "u", "l", "l">>
      [] v.t = "bool" -> IF v.b THEN <<"t", "r", "u", "e">>
                                ELSE <<"f", "a", "l", "s", "e">>
      [] v.t = "num" -> NumToText(v.n)
      [] v.t = "str" -> <<"\"">> \o Quote(v.s) \o <<"\"">>
      [] v.t = "arr" ->
            IF v.items = <<>> THEN <<"[", "]">>
            ELSE <<"[">> \o Elements(v, space, depth, 1) \o <<"]">>
      [] v.t = "obj" ->
            IF v.keys = <<>> THEN <<"{", "}">>
            ELSE <<"{">> \o Elements(v, space, depth, 1) \o <<"}">>

\* the elements of an array, or the members of an object, from the i-th on,
\* and the line break before the closing bracket
Elements(v, space, depth, i) ==
    LET n == IF v.t = "arr" THEN Len(v.items) ELSE Len(v.keys)
        break(d) == IF space = 0 THEN <<>> ELSE <<"\n">> \o Indent(space * d)
    IN  IF i > n THEN break(depth)
        ELSE (IF i > 1 THEN <<",">> ELSE <<>>)
             \o break(depth + 1)
             \o (IF v.t = "arr"
                 THEN JSONstringify(v.items[i], space, depth + 1)
                 ELSE <<"\"", v.keys[i], "\"", ":">>
                      \o (IF space = 0 THEN <<>> ELSE <<" ">>)
                      \o JSONstringify(v.vals[i], space, depth + 1))
             \o Elements(v, space, depth, i + 1)

\* the first exception among the texts, <<>> when there is none
FirstThrown(texts) ==
    IF \E i \in 1..Len(texts) : Thrown(texts[i])
    THEN texts[CHOOSE i \in 1..Len(texts) :
                   Thrown(texts[i]) /\ \A j \in 1..(i - 1) : ~Thrown(texts[j])]
    ELSE <<>>

\* text || alt
OrText(text, alt) == IF text = <<>> THEN alt ELSE text

\* the fields formatIpoRow reads, in the order in which it strips them
RowFields ==
    <<"Name", "GMP", "Price", "Sub", "GMP(L/H)", "Open", "Close", "Listing", "Updated-On">>

\* the window line of formatIpoRow
WindowText(open, close) ==
    IF open # <<>> \/ close # <<>>
    THEN OrText(open, <<"-">>) \o <<" - ">> \o OrText(close, <<"-">>)
    ELSE <<"-">>

\* the block formatIpoRow joins from the stripped fields f, in the order of
\* RowFields; the emoji and the bullet of the source are written in ASCII
Block(f) ==
    IF FirstThrown(f) # <<>> THEN FirstThrown(f)
    ELSE <<"* ">> \o OrText(f[1], <<"Unknown IPO">>)
         \o <<"\n", "  GMP: ">> \o OrText(f[2], <<"-">>)
         \o <<"\n", "  Price: ">> \o OrText(f[3], <<"-">>)
         \o <<"\n", "  Subscriptions: ">> \o OrText(f[4], <<"-">>)
         \o <<"\n", "  GMP Range: ">> \o OrText(f[5], <<"-">>)
         \o <<"\n", "  Window: ">> \o WindowText(f[6], f[7])
         \o <<"\n", "  Listing: ">> \o OrText(f[8], <<"-">>)
         \o <<"\n", "  Updated: ">> \o OrText(f[9], <<"-">>)
         \o <<"\n", "  Action: Apply today before the window closes">>

formatIpoRow(row) ==
    IF row.t \in {"null", "undefined"} THEN TypeError
    ELSE Block([i \in 1..Len(RowFields) |-> stripHtml(Get(row, RowFields[i]))])

RECURSIVE Join(_, _)
\* texts.join(sep)
Join(texts, sep) ==
    IF texts = <<>> THEN <<>>
    ELSE IF Len(texts) = 1 THEN texts[1]
    ELSE texts[1] \o sep \o Join(Tail(texts), sep)

RECURSIVE Filter(_, _)
\* the indices i of tests, in order, with tests[i] = <<"true">>, from i on
Filter(tests, i) ==
    IF i > Len(tests) THEN <<>>
    ELSE (IF tests[i] = <<"true">> THEN <<i>> ELSE <<>>) \o Filter(tests, i + 1)

HeaderUpdate == <<"IPO GMP Update", "\n", "\n">>

HeaderClosing(todayIso) ==
    <<"IPOs Closing Today (">> \o todayIso \o <<")", "\n", "\n">>

NoIpos == <<"No IPOs closing today.">>

\* the two return statements that end formatMessage
Wrap(todayIso, rows) ==
    IF rows = <<>> THEN HeaderClosing(todayIso) \o NoIpos
    ELSE HeaderClosing(todayIso) \o rows

\* closingToday.map(formatIpoRow).join("\n\n").trim(), and the rest
Render(todayIso, blocks) ==
    IF FirstThrown(blocks) # <<>> THEN FirstThrown(blocks)
    ELSE Wrap(todayIso, Trim(Join(blocks, <<"\n", "\n">>)))

\* table.map(formatIpoRow) for the rows of table at the indices closingToday
MapRows(table, closingToday) ==
    [k \in 1..Len(closingToday) |-> formatIpoRow(table[closingToday[k]])]

\* data.reportTableData.filter(...), where tests[i] is what isClosingToday
\* gives for the i-th row, and the rest
Compose(todayIso, table, tests) ==
    IF FirstThrown(tests) # <<>> THEN FirstThrown(tests)
    ELSE Render(todayIso, MapRows(table, Filter(tests, 1)))

\* formatMessage(data) when getTodayIso() is todayIso
formatMessage(payload, todayIso, year, parsed) ==
    IF ~Truthy(payload) \/ Get(payload, "reportTableData").t # "arr"
    THEN HeaderUpdate \o JSONstringify(payload, 2, 0)
    ELSE Compose(todayIso, Get(payload, "reportTableData").items,
                 [i \in 1..Len(Get(payload, "reportTableData").items) |->
                     isClosingToday(Get(payload, "reportTableData").items[i],
                                    todayIso, year, parsed)])

-----------------------------------------------------------------------------
(* Network calls *)

\* the timeout option gmp.js passes to both of its fetch calls
TIMEOUT_MS == 15000

\* the timeout option of a network call: the handler passes none
TimeoutOption(m) == IF m = "main" THEN TIMEOUT_MS ELSE 0

\* what a network call comes back with
JsonReply(status, json) == [kind |-> "json", status |-> status, json |-> json]

TextReply(status) == [kind |-> "text", status |-> status, json |-> Null]

NoReply == [kind |-> "network", status |-> 0, json |-> Null]

Failure(text) == [ok |-> FALSE, value |-> Null, error |-> text]

Success(value) == [ok |-> TRUE, value |-> value, error |-> <<>>]

TimeoutError == <<"network timeout">>

\* new URL(text) accepts text, and fetch(text) issues a request
IsAbsoluteUrl(text) ==
    \/ StartsWith(text, <<"h", "t", "t", "p", ":", "/", "/">>)
    \/ StartsWith(text, <<"h", "t", "t", "p", "s", ":", "/", "/">>)

\* fetchGmp(), from the reply of the upstream endpoint on
fetchGmp(reply) ==
    IF reply.kind = "network" THEN Failure(<<"request failed">>)
    ELSE IF reply.status \notin 200..299
         THEN Failure(<<"API error ">> \o NumToText(reply.status))
    ELSE IF reply.kind = "text" THEN Failure(<<"invalid json response body">>)
    ELSE Success(reply.json)

\* the message of the TypeError that reading json.ok throws when json is null
NullOkError ==
    <<"Cannot read properties of ", "n", "u", "l", "l", " (reading 'ok')">>

\* a notifier that goes by the status code instead of the flag
sendTelegramByStatus(reply, m) ==
    IF reply.kind = "network" THEN Failure(<<"request failed">>)
    ELSE IF reply.kind = "text" THEN Failure(<<"invalid json response body">>)
    ELSE IF reply.status \notin 200..299
         THEN Failure(<<"Telegram send failed: ">> \o JSONstringify(reply.json, 0, 0)
                      \o (IF m = "main" THEN <<>> ELSE <<" ">>))
    ELSE Success(reply.json)

\* sendTelegram(text), from the reply of the provider on
sendTelegram(reply, m) ==
    IF reply.kind = "network" THEN Failure(<<"request failed">>)
    ELSE IF reply.kind = "text" THEN Failure(<<"invalid json response body">>)
    ELSE IF reply.json.t = "null" THEN Failure(NullOkError)
    ELSE IF ~Truthy(Get(reply.json, "ok"))
         THEN Failure(<<"Telegram send failed: ">> \o JSONstringify(reply.json, 0, 0)
                      \o (IF m = "main" THEN <<>> ELSE <<" ">>))
    ELSE Success(reply.json)

-----------------------------------------------------------------------------
(* Inputs *)

\* the largest number of rows of a payload
MaxRows == 2

EnvValues ==
    << Undefined,
       Str(<<>>),
       Str(<<"h", "t", "t", "p", "s", ":", "/", "/", "h", "/">>),
       Str(<<"h">>) >>

Apr5 == <<"2", "0", "2", "4", "-", "0", "4", "-", "0", "5">>

\* the clock: the Asia/Kolkata date and the year of the process's time zone
Clocks ==
    << [y |-> 2024, m |-> 4, d |-> 5, year |-> 2024],
       [y |-> 2025, m |-> 1, d |-> 1, year |-> 2024] >>

ParseOutcomes == << InvalidDate, Instant(2024, 4, 5), Instant(10000, 1, 1) >>

Rows ==
    << Obj(<<"Name", "Close", "~Srt_Close", "GMP">>,
           <<Str(<<"<", "b", ">", "F", "o", "o", "<", "/", "b", ">">>),
             Str(<<"0", "5", "-", "A", "p", "r">>), Str(Apr5), Str(<<"5", "0">>)>>),
       Obj(<<"Name", "Close">>,
           <<Str(<<"B", "&", "a", "m", "p", ";", "C">>), Str(<<"5", "-", "a", "p", "r">>)>>),
       Obj(<<"Name", "Close", "~Srt_Close">>,
           <<Num(7), Str(Apr5), Str(<<"2", "0", "2", "4", "-", "0", "4", "-", "0", "6">>)>>),
       Obj(<<"Name", "Close">>, <<Str(<<"D">>), Str(<<"T", "B", "A">>)>>),
       Obj(<<"Name", "~Srt_Close">>,
           <<Str(<<"&", "#", "1", "1", "1", "4", "1", "1", "2", ";">>), Str(Apr5)>>),
       Obj(<<"Close", "~Srt_Close">>, <<Str(Apr5), Num(20240405)>>),
       Str(<<"r">>),
       Null >>

Table(rows) == Obj(<<"reportTableData">>, <<Arr(rows)>>)

\* payloads without a row sequence
Malformed ==
    << Null, Bool(FALSE), Num(0), Num(7), Str(<<"x">>), Arr(<<>>), Obj(<<>>, <<>>),
       Obj(<<"reportTableData">>, <<Null>>),
       Obj(<<"reportTableData">>, <<Str(<<"x">>)>>),
       Obj(<<"rows">>, <<Arr(<<Num(1)>>)>>) >>

FetchFailures == << JsonReply(500, Obj(<<>>, <<>>)), TextReply(404), TextReply(200), NoReply >>

SendReplies ==
    << JsonReply(200, Obj(<<"ok", "result">>, <<Bool(TRUE), Obj(<<>>, <<>>)>>)),
       JsonReply(200, Obj(<<"ok">>, <<Num(1)>>)),
       JsonReply(500, Obj(<<"ok">>, <<Bool(TRUE)>>)),
       JsonReply(200, Obj(<<"ok", "description">>, <<Bool(FALSE), Str(<<"n", "o">>)>>)),
       JsonReply(400, Obj(<<"ok", "error_code">>, <<Bool(FALSE), Num(400)>>)),
       JsonReply(200, Obj(<<"ok">>, <<Num(0)>>)),
       JsonReply(200, Obj(<<"ok">>, <<Null>>)),
       JsonReply(200, Obj(<<"result">>, <<Bool(TRUE)>>)),
       JsonReply(200, Arr(<<>>)),
       JsonReply(200, Num(1)),
       JsonReply(200, Null),
       TextReply(502),
       NoReply >>

-----------------------------------------------------------------------------
(* The entry points: main of gmp.js and the request handler *)

NoResponse == [status |-> 0, body |-> Undefined]

\* no helper has been called
Pending == [done |-> FALSE, parsed |-> InvalidDate, value |-> <<>>]

Returned(parsed, value) == [done |-> TRUE, parsed |-> parsed, value |-> value]

Idle ==
    /\ fn = "none"
    /\ arg = Undefined
    /\ ret = Pending

Init ==
    /\ mode \in {"main", "handler"}
    /\ \E i \in 1..Len(EnvValues), j, k \in 1..3 :
           env = [API_URL |-> EnvValues[i], BOT_TOKEN |-> EnvValues[j],
                  CHAT_ID |-> EnvValues[k]]
    /\ \E c \in 1..Len(Clocks) : now = Clocks[c]
    /\ pc = "start"
    /\ inflight = "none"
    /\ timeoutMs = 0
    /\ requests = <<>>
    /\ data = Undefined
    /\ message = <<>>
    /\ err = <<>>
    /\ sendResults = <<>>
    /\ exitCode = -1
    /\ response = NoResponse
    /\ Idle

\* a configuration check that forgets CHAT_ID
MissingEnvWithoutChat(e) ==
    ~Truthy(e.API_URL) \/ ~Truthy(e.BOT_TOKEN)

\* !API_URL || !BOT_TOKEN || !CHAT_ID
MissingEnv(e) == ~Truthy(e.API_URL) \/ ~Truthy(e.BOT_TOKEN) \/ ~Truthy(e.CHAT_ID)

\* process.exit(code), or the end of main (code 0)
Exit(code) ==
    /\ pc' = "done"
    /\ exitCode' = code
    /\ UNCHANGED response

\* return res.status(status).json(body)
Respond(status, body) ==
    /\ pc' = "done"
    /\ response' = [status |-> status, body |-> body]
    /\ UNCHANGED exitCode

ErrorBody(text) == Obj(<<"error">>, <<Str(text)>>)

\* a request: the GET of fetchGmp ("fetch"), or the POST of sendTelegram with
\* the composed message ("message") or with the error text ("error")
Request(kind, text) ==
    [kind |-> kind, chat |-> IF kind = "fetch" THEN Undefined ELSE env.CHAT_ID,
     text |-> text]

\* a network call is issued and awaited
Await(kind, text, call, at) ==
    /\ requests' = Append(requests, Request(kind, text))
    /\ inflight' = call
    /\ timeoutMs' = TimeoutOption(mode)
    /\ pc' = at
    /\ UNCHANGED <<exitCode, response>>

\* no network call is awaited any more
Settled ==
    /\ inflight' = "none"
    /\ timeoutMs' = 0
    /\ UNCHANGED requests

\* a catch block that tries the fetch again
CatchRetries(e) ==
    /\ err' = e
    /\ Await("fetch", <<>>, "fetch", "awaitFetch")

\* the catch block, entered with the exception e: main calls sendTelegram with
\* the error text and awaits it, the handler answers 500
Catch(e) ==
    /\ err' = e
    /\ IF mode = "main"
       THEN Await("error", <<"GMP Bot error: ">> \o e, "errsend", "awaitErrSend")
       ELSE Respond(500, ErrorBody(e)) /\ Settled

\* the configuration check and the run up to the first await: buildApiUrl and
\* the GET request of fetchGmp
Start ==
    /\ pc = "start"
    /\ IF MissingEnv(env)
       THEN /\ IF mode = "main"
               THEN Exit(1)
               ELSE Respond(500, ErrorBody(<<"Missing environment variables">>))
            /\ Settled
            /\ UNCHANGED err
       ELSE IF IsAbsoluteUrl(env.API_URL.s)
            THEN Await("fetch", <<>>, "fetch", "awaitFetch") /\ UNCHANGED err
            ELSE Catch(IF mode = "main" THEN <<"Invalid URL">>
                       ELSE <<"Only absolute URLs are supported">>)
    /\ UNCHANGED <<mode, env, now, data, message, sendResults>>
    /\ UNCHANGED helperVars

\* formatMessage returned text, or threw it: the call of sendTelegram(message)
\* up to its await, or the catch block
Formatted(text) ==
    IF Thrown(text)
    THEN Catch(text) /\ UNCHANGED message
    ELSE /\ message' = text
         /\ Await("message", text, "send", "awaitSend")
         /\ UNCHANGED err

\* fetchGmp returned the payload, or threw: the run up to the next await
Fetched(r) ==
    IF r.ok
    THEN /\ data' = r.value
         /\ \E p \in 1..Len(ParseOutcomes) :
                Formatted(formatMessage(r.value, getTodayIso(now), now.year,
                                        ParseOutcomes[p]))
    ELSE Catch(r.error) /\ UNCHANGED <<data, message>>

\* the upstream endpoint answers, or the connection fails
FetchReply(reply) ==
    /\ pc = "awaitFetch"
    /\ Fetched(fetchGmp(reply))
    /\ UNCHANGED <<mode, env, now, sendResults>>
    /\ UNCHANGED helperVars

\* sendTelegram(message) returned, or threw: the end of the try block, or the
\* catch block
Sent(r) ==
    IF r.ok
    THEN /\ IF mode = "main"
            THEN Exit(0)
            ELSE Respond(200, Obj(<<"ok", "sent">>,
                                  <<Bool(TRUE), Str(<<"toISOString()">>)>>))
         /\ Settled
         /\ UNCHANGED err
    ELSE Catch(r.error)

\* the provider answers the primary send, or the connection fails
SendReply(reply) ==
    /\ pc = "awaitSend"
    /\ sendResults' = Append(sendResults,
                             [kind |-> "message", reply |-> reply,
                              result |-> sendTelegram(reply, mode)])
    /\ Sent(sendTelegram(reply, mode))
    /\ UNCHANGED <<mode, env, now, data, message>>
    /\ UNCHANGED helperVars

\* a catch block that reports success once the error notification is delivered
ErrSendReplyForgiving(reply) ==
    /\ pc = "awaitErrSend"
    /\ sendResults' = Append(sendResults,
                             [kind |-> "error", reply |-> reply,
                              result |-> sendTelegram(reply, mode)])
    /\ Exit(IF sendTelegram(reply, mode).ok THEN 0 ELSE 1)
    /\ Settled
    /\ UNCHANGED <<mode, env, now, data, message, err>>
    /\ UNCHANGED helperVars

\* the provider answers the error notification, or the connection fails:
\* the rest of the catch block of main
ErrSendReply(reply) ==
    /\ pc = "awaitErrSend"
    /\ sendResults' = Append(sendResults,
                             [kind |-> "error", reply |-> reply,
                              result |-> sendTelegram(reply, mode)])
    /\ Exit(1)
    /\ Settled
    /\ UNCHANGED <<mode, env, now, data, message, err>>
    /\ UNCHANGED helperVars

\* the timeout of the awaited call expires: the call throws
Timeout ==
    /\ inflight # "none"
    /\ timeoutMs > 0
    /\ IF inflight = "errsend"
       THEN Exit(1) /\ Settled /\ UNCHANGED err
       ELSE Catch(TimeoutError)
    /\ UNCHANGED <<mode, env, now, data, message, sendResults>>
    /\ UNCHANGED helperVars

\* the upstream endpoint answers 200 with a payload that has a row sequence
FetchReturns ==
    \E n \in 0..MaxRows : \E f \in [1..n -> 1..Len(Rows)] :
        FetchReply(JsonReply(200, Table([i \in 1..n |-> Rows[f[i]]])))

\* the upstream endpoint answers 200 with a payload that has none
FetchReturnsMalformed ==
    \E i \in 1..Len(Malformed) : FetchReply(JsonReply(200, Malformed[i]))

FetchFails == \E i \in 1..Len(FetchFailures) : FetchReply(FetchFailures[i])

SendAnswered == \E i \in 1..Len(SendReplies) : SendReply(SendReplies[i])

ErrSendAnswered == \E i \in 1..Len(SendReplies) : ErrSendReply(SendReplies[i])

\* what the two servers do
Network ==
    \/ FetchReturns
    \/ FetchReturnsMalformed
    \/ FetchFails
    \/ SendAnswered
    \/ ErrSendAnswered

Next == Start \/ Network \/ Timeout

Spec == Init /\ [][Next]_vars

\* the program starts, and an armed timeout expires when no answer comes;
\* nothing makes the servers answer
FairSpec == Spec /\ WF_vars(Start) /\ WF_vars(Timeout)

-----------------------------------------------------------------------------
(* The helpers on their own: one call of a helper on an argument *)

\* the largest number of pieces of an argument of stripHtml
MaxTokens == 3

\* the entry points do not run
Parked ==
    /\ mode = "main"
    /\ env = [API_URL |-> EnvValues[3], BOT_TOKEN |-> EnvValues[3],
              CHAT_ID |-> EnvValues[3]]
    /\ \E c \in 1..Len(Clocks) : now = Clocks[c]
    /\ pc = "parked"
    /\ inflight = "none"
    /\ timeoutMs = 0
    /\ requests = <<>>
    /\ data = Undefined
    /\ message = <<>>
    /\ err = <<>>
    /\ sendResults = <<>>
    /\ exitCode = -1
    /\ response = NoResponse

RECURSIVE Concat(_)
Concat(texts) == IF texts = <<>> THEN <<>> ELSE Head(texts) \o Concat(Tail(texts))

NonStrings == << Null, Undefined, Num(0), Num(5), Bool(TRUE), Arr(<<>>), Obj(<<>>, <<>>) >>

StripTokens ==
    << <<"&", "a", "m", "p", ";">>,
       <<"a", "m", "p", ";">>,
       <<"&", "l", "t", ";">>,
       <<"&", "g", "t", ";">>,
       <<"b">>,
       <<"<", "b", ">">>,
       <<"&", "#", "3", "8", ";">>,
       <<"#", "6", "0", ";">>,
       <<"&", "n", "b", "s", "p", ";">>,
       <<"&", "#", "3", "9", ";">>,
       <<"&", "q", "u", "o", "t", ";">>,
       <<" ">>,
       <<"<">>,
       <<"&", "#", "1", "1", "1", "4", "1", "1", "2", ";">> >>

InitStrip ==
    /\ Parked
    /\ fn = "stripHtml"
    /\ ret = Pending
    /\ \/ \E i \in 1..Len(NonStrings) : arg = NonStrings[i]
       \/ \E n \in 0..MaxTokens : \E f \in [1..n -> 1..Len(StripTokens)] :
              arg = Str(Concat([i \in 1..n |-> StripTokens[f[i]]]))

CallStripHtml ==
    /\ fn = "stripHtml"
    /\ ~ret.done
    /\ ret' = Returned(InvalidDate, stripHtml(arg))
    /\ UNCHANGED <<fn, arg>>
    /\ UNCHANGED pipelineVars

SpecStrip == InitStrip /\ [][CallStripHtml]_vars

DayTexts == << <<"5">>, <<"0", "5">>, <<"3", "1">>, <<"9", "9">>, <<"0">>, <<"1", "2", "3">> >>

MonthWords ==
    << <<"A", "p", "r">>, <<"a", "p", "r">>, <<"F", "e", "b">>, <<"J", "A", "N">>,
       <<"X", "y", "z">>, <<"J", "u", "n", "e">> >>

YearTexts == << <<"2", "0", "2", "4">>, <<"2", "0", "2", "5">>, <<"0", "0", "0", "0">> >>

TwoDigits == << <<"0", "0">>, <<"0", "2">>, <<"0", "4">>, <<"1", "3">>, <<"2", "9">>, <<"4", "5">> >>

OtherDates ==
    << Str(<<>>), Str(<<" ">>), Str(<<"T", "B", "A">>),
       Str(<<"A", "p", "r", " ", "5", ",", " ", "2", "0", "2", "4">>),
       Str(<<"2", "0", "2", "4", "/", "0", "4", "/", "0", "5">>),
       Str(<<"+", "0", "1", "0", "0", "0", "0", "-", "0", "1", "-", "0", "1">>) >>

\* text with the white space around it that trim removes
Spaced(text, k) ==
    CASE k = 1 -> text
      [] k = 2 -> <<" ">> \o text \o <<"\n">>

InitDate ==
    /\ Parked
    /\ fn = "normalizeDate"
    /\ ret = Pending
    /\ \/ \E i \in 1..Len(NonStrings) : arg = NonStrings[i]
       \/ \E i \in 1..Len(OtherDates) : arg = OtherDates[i]
       \/ \E a \in 1..Len(DayTexts), b \in 1..Len(MonthWords), k \in 1..2 :
              arg = Str(Spaced(DayTexts[a] \o <<"-">> \o MonthWords[b], k))
       \/ \E y \in 1..Len(YearTexts), m, d \in 1..Len(TwoDigits) :
              arg = Str(YearTexts[y] \o <<"-">> \o TwoDigits[m] \o <<"-">> \o TwoDigits[d])

CallNormalizeDate ==
    /\ fn = "normalizeDate"
    /\ ~ret.done
    /\ \E p \in 1..Len(ParseOutcomes) :
           ret' = Returned(ParseOutcomes[p], normalizeDate(arg, now.year, ParseOutcomes[p]))
    /\ UNCHANGED <<fn, arg>>
    /\ UNCHANGED pipelineVars

SpecDate == InitDate /\ [][CallNormalizeDate]_vars

InitMessage ==
    /\ Parked
    /\ fn = "formatMessage"
    /\ ret = Pending
    /\ \/ \E i \in 1..Len(Malformed) : arg = Malformed[i]
       \/ \E n \in 0..MaxRows : \E f \in [1..n -> 1..Len(Rows)] :
              arg = Table([i \in 1..n |-> Rows[f[i]]])

CallFormatMessage ==
    /\ fn = "formatMessage"
    /\ ~ret.done
    /\ \E p \in 1..Len(ParseOutcomes) :
           ret' = Returned(ParseOutcomes[p],
                           formatMessage(arg, getTodayIso(now), now.year, ParseOutcomes[p]))
    /\ UNCHANGED <<fn, arg>>
    /\ UNCHANGED pipelineVars

SpecMessage == InitMessage /\ [][CallFormatMessage]_vars

-----------------------------------------------------------------------------
(* Properties of the entry points *)

Kinds == [i \in 1..Len(requests) |-> requests[i].kind]

NotifierCalls == SelectSeq(requests, LAMBDA r : r.kind # "fetch")

ErrorCalls == SelectSeq(requests, LAMBDA r : r.kind = "error")

\* a value of process.env that is missing or empty
Unset(v) == v.t = "undefined" \/ (v.t = "str" /\ v.s = <<>>)

ConfigMissing == Unset(env.API_URL) \/ Unset(env.BOT_TOKEN) \/ Unset(env.CHAT_ID)

\* the parsed response carries a truthy "ok"
HasTruthyOk(json) ==
    /\ json.t = "obj"
    /\ \E i \in 1..Len(json.keys) :
           /\ json.keys[i] = "ok"
           /\ json.vals[i].t \notin {"null", "undefined"}
           /\ json.vals[i] \notin {Bool(FALSE), Num(0), Str(<<>>)}

\* the provider acknowledged the primary send
PrimaryAcked ==
    \E i \in 1..Len(sendResults) :
        /\ sendResults[i].kind = "message"
        /\ sendResults[i].reply.kind = "json"
        /\ HasTruthyOk(sendResults[i].reply.json)

\* the fetch succeeded, the message was composed and the primary send was
\* acknowledged
PipelineSucceeded ==
    /\ data.t # "undefined"
    /\ message # <<>>
    /\ PrimaryAcked

ReportedSuccess ==
    /\ pc = "done"
    /\ IF mode = "main" THEN exitCode = 0 ELSE response.status = 200

Contains(text, part) ==
    \E i \in 0..(Len(text) - Len(part)) : SubSeq(text, i + 1, i + Len(part)) = part

\* C1: in both entry points an invocation in which a step of the pipeline
\* failed ends having made exactly one more notifier call, carrying the error
\* text to the same chat, and no invocation makes more than two notifier calls.
C1_ErrorNotifiedOnce ==
    /\ Len(NotifierCalls) <= 2
    /\ (pc = "done" /\ err # <<>>) =>
           /\ Len(ErrorCalls) = 1
           /\ ErrorCalls[1].chat = env.CHAT_ID
           /\ Contains(ErrorCalls[1].text, err)

\* C2: the reported status is success (exit code 0, or status 200 with the
\* acknowledgement body) exactly when the fetch succeeded, the message was
\* composed and the primary send was acknowledged, and failure (exit code 1,
\* or status 500 with an error message) in every other case, whatever became
\* of the error notification.
C2_StatusReflectsPipeline ==
    pc = "done" =>
        IF mode = "main"
        THEN /\ exitCode \in {0, 1}
             /\ exitCode = 0 <=> PipelineSucceeded
        ELSE /\ response.status \in {200, 500}
             /\ response.status = 200 <=> PipelineSucceeded
             /\ response.status = 200 =>
                    /\ Get(response.body, "ok") = Bool(TRUE)
                    /\ Get(response.body, "sent").t = "str"
             /\ response.status = 500 => Get(response.body, "error").t = "str"

\* a run of main that failed, delivered its error notification and exited 1
C2_Witness ==
    /\ pc = "done"
    /\ mode = "main"
    /\ err # <<>>
    /\ \E i \in 1..Len(sendResults) :
           sendResults[i].kind = "error" /\ sendResults[i].result.ok
    /\ exitCode = 1

\* C3: when API_URL, BOT_TOKEN or CHAT_ID is missing or empty the invocation
\* fails at once (exit code 1, or status 500 with an error body) and issues no
\* network request of any kind.
C3_NoNetworkWithoutConfig ==
    ConfigMissing =>
        /\ requests = <<>>
        /\ inflight = "none"
        /\ pc \in {"start", "done"}
        /\ pc = "done" =>
               IF mode = "main" THEN exitCode = 1
               ELSE /\ response.status = 500
                    /\ Get(response.body, "error").t = "str"

\* the handler has answered an invocation in which only CHAT_ID is missing
C3_Witness ==
    /\ pc = "done"
    /\ mode = "handler"
    /\ env.CHAT_ID.t = "undefined"
    /\ ~Unset(env.API_URL)
    /\ ~Unset(env.BOT_TOKEN)
    /\ response.status = 500

\* C4: every invocation of either entry point eventually completes, even when
\* a server never answers.
C4_Completes == <>(pc = "done")

\* the standalone run does complete
C4_MainCompletes == (mode = "main") => <>(pc = "done")

\* every awaited network call carries the fixed timeout
C4_EveryCallBounded == inflight # "none" => timeoutMs = TIMEOUT_MS

\* C6: after a successful fetch, whatever the payload, a message has been
\* composed without an exception, it is the raw dump when the payload has no
\* row sequence, and the primary send is attempted.
C6_MalformedTolerated ==
    data.t # "undefined" =>
        /\ message # <<>>
        /\ \E i \in 1..Len(requests) : requests[i].kind = "message"
        /\ (~Truthy(data) \/ Get(data, "reportTableData").t # "arr") =>
               message = HeaderUpdate \o JSONstringify(data, 2, 0)

\* C7: the notifier succeeds exactly when the parsed response carries a truthy
\* "ok", whatever the status code, and when it does not the error raised
\* carries the response body.
C7_SuccessOnlyOnFlag ==
    \A i \in 1..Len(sendResults) :
        sendResults[i].reply.kind = "json" =>
            /\ sendResults[i].result.ok <=> HasTruthyOk(sendResults[i].reply.json)
            /\ ~HasTruthyOk(sendResults[i].reply.json) =>
                   Contains(sendResults[i].result.error,
                            JSONstringify(sendResults[i].reply.json, 0, 0))

\* the provider answered a send with status 200 and a body without a truthy
\* "ok", and the notifier raised an error carrying that body
C7_Witness ==
    \E i \in 1..Len(sendResults) :
        /\ sendResults[i].reply.kind = "json"
        /\ sendResults[i].reply.status = 200
        /\ ~HasTruthyOk(sendResults[i].reply.json)
        /\ ~sendResults[i].result.ok
        /\ Contains(sendResults[i].result.error,
                    JSONstringify(sendResults[i].reply.json, 0, 0))

\* the requests of an invocation are in one of these orders, the composed
\* message is what is sent, and a successful invocation made one fetch and then
\* one send
C8_Order ==
    /\ Kinds \in { <<>>, <<"fetch">>, <<"fetch", "message">>, <<"fetch", "error">>,
                   <<"fetch", "message", "error">>, <<"error">> }
    /\ \A i \in 1..Len(requests) :
           requests[i].kind = "message" =>
               /\ data.t # "undefined"
               /\ message # <<>>
               /\ requests[i].text = message
    /\ ReportedSuccess => Kinds = <<"fetch", "message">>

\* once a step has failed the only request still made is the error notification
C8_NoRetry ==
    (err # <<>> /\ Len(requests') > Len(requests)) =>
        requests'[Len(requests')].kind = "error"

\* C8: the fetch is attempted at most once, the composed message is sent at
\* most once and only after the fetch succeeded and the message was composed,
\* neither is attempted again after a failure, and a successful invocation
\* makes exactly one fetch followed by exactly one send.
C8_SequentialOnce == []C8_Order /\ [][C8_NoRetry]_vars

\* main fetched, sent the message, was refused, and sent the error notification
C8_Witness ==
    /\ pc = "done"
    /\ mode = "main"
    /\ Kinds = <<"fetch", "message", "error">>

-----------------------------------------------------------------------------
(* Properties of the helpers *)

\* the rows of table whose resolved close date is todayIso, in order
Qualifying(table, todayIso, year, parsed) ==
    SelectSeq(table, LAMBDA row : getCloseDateIso(row, year, parsed) = todayIso)

\* the header for todayIso, then one block for each row, or the fixed line
Expected(rows, todayIso) ==
    HeaderClosing(todayIso)
    \o (IF Len(rows) = 0 THEN NoIpos
        ELSE Join([k \in 1..Len(rows) |-> formatIpoRow(rows[k])], <<"\n", "\n">>))

HasRows(payload) == Truthy(payload) /\ Get(payload, "reportTableData").t = "arr"

\* C5: for every payload with a row sequence the composed message is the
\* header for the reference date, then one block for each row whose resolved
\* close date is the reference date, in payload order, or the fixed line when
\* there is no such row.
C5_ClosingRowsOnly ==
    (fn = "formatMessage" /\ ret.done /\ HasRows(arg)) =>
        /\ ~Thrown(ret.value)
        /\ ret.value = Expected(Qualifying(Get(arg, "reportTableData").items,
                                           getTodayIso(now), now.year, ret.parsed),
                                getTodayIso(now))

\* the same, for the calls that return
C5_WhenComposed ==
    (fn = "formatMessage" /\ ret.done /\ HasRows(arg) /\ ~Thrown(ret.value)) =>
        ret.value = Expected(Qualifying(Get(arg, "reportTableData").items,
                                        getTodayIso(now), now.year, ret.parsed),
                             getTodayIso(now))

DaysInMonth(y, m) ==
    CASE m \in {4, 6, 9, 11} -> 30
      [] m = 2 -> IF (y % 4 = 0 /\ y % 100 # 0) \/ y % 400 = 0 THEN 29 ELSE 28
      [] OTHER -> 31

\* text is YYYY-MM-DD for a day of the calendar
IsCalendarDate(text) ==
    /\ IsoShape(text)
    /\ Number(SubSeq(text, 6, 7)) \in 1..12
    /\ Number(SubSeq(text, 9, 10)) \in
           1..DaysInMonth(Number(SubSeq(text, 1, 4)), Number(SubSeq(text, 6, 7)))

\* C9: normalizeDate returns null or a valid calendar date in the form
\* YYYY-MM-DD, and returns an input of that form unchanged.
C9_ValidDateOrNull ==
    (fn = "normalizeDate" /\ ret.done) =>
        /\ ret.value = NullDate \/ IsCalendarDate(ret.value)
        /\ (arg.t = "str" /\ IsoShape(arg.s)) => ret.value = arg.s

HasTag(text) ==
    \E i \in 1..Len(text) : \E j \in (i + 1)..Len(text) : text[i] = "<" /\ text[j] = ">"

HasNumericRef(text) == \E i \in 0..Len(text) : RefEnd(Drop(text, i)) > 0

HasNamedEntity(text) ==
    \E k \in 1..Len(namedMap) : Contains(text, namedMap[k][1])

\* C10: the result of stripHtml holds no tag, no numeric character reference
\* and none of the six named entities, and is empty for an argument that is
\* not a string.
C10_NoMarkupLeft ==
    (fn = "stripHtml" /\ ret.done) =>
        /\ ~HasTag(ret.value)
        /\ ~HasNumericRef(ret.value)
        /\ ~HasNamedEntity(ret.value)
        /\ arg.t # "str" => ret.value = <<>>

====
